---- MODULE Spec2Model ----
(***************************************************************************)
(* DisFork: the batch classification of fork repositories.                 *)
(*                                                                         *)
(* main (src/src/main.rs) spawns one task per fork; each task takes a      *)
(* permit of main's semaphore and runs ForkAnalyzer::analyze_fork          *)
(* (src/src/analyzer.rs), which calls the remote API through GitHubClient  *)
(* (src/src/github.rs): get_repo, the paged list_branches, and one         *)
(* compare_commits per branch, each in a task of its own.  Every remote    *)
(* call of GitHubClient holds a permit of the client's semaphore.          *)
(*                                                                         *)
(* One action is one poll of a task by the runtime: the code a task runs   *)
(* from one suspension point (a permit that is not available, a remote     *)
(* call, join_next on an empty result queue) to the next.                  *)
(***************************************************************************)
EXTENDS Integers, Sequences, FiniteSets

---------------------------------------------------------------------------
(* Bounds of the model *)

\* number of fork repositories of the account
NumForks == 2
\* largest value of --parallel
MaxParallel == 2
\* ForkAnalyzer.max_branches, the configured threshold
max_branches == 2
\* largest number of pages the remote serves for one listing
MaxPages == 3

(* Program constants *)

\* per_page(100) of the listing requests
PAGE_SIZE == 100

Slots == 1 .. max_branches

\* The pages the remote serves.  A page that has a next page is full; the
\* last page of a listing carries anything from nothing to a full page (here:
\* up to one branch more than max_branches, 37, or a full page).
LastPageSizes == (0 .. max_branches + 1) \cup {37, PAGE_SIZE}
PageSizes(has_next) == IF has_next THEN {PAGE_SIZE} ELSE LastPageSizes

---------------------------------------------------------------------------
(* tokio::sync::Semaphore: a counter of permits and a FIFO queue of        *)
(* waiters.  A released permit is reserved for the head of the queue, so   *)
(* a newcomer acquires without waiting only when nobody waits.             *)

NewSemaphore(n) == [permits |-> n, queue |-> <<>>]

CanAcquire_NoCount(s) == s.queue = <<>>

\* acquire() completes at once
CanAcquire(s) == s.queue = <<>> /\ s.permits > 0

Acquire(s) == [s EXCEPT !.permits = @ - 1]

Enqueue(s, id) == [s EXCEPT !.queue = Append(@, id)]

\* a waiter is woken with a permit
Granted(s, id) == s.queue # <<>> /\ Head(s.queue) = id /\ s.permits > 0

TakeGrant(s) == [permits |-> s.permits - 1, queue |-> Tail(s.queue)]

\* drop of a permit
Release(s) == [s EXCEPT !.permits = @ + 1]

\* drop of an Acquire future that is still queued
RECURSIVE Without(_, _)
Without(q, id) ==
    IF q = <<>> THEN <<>>
    ELSE IF Head(q) = id THEN Without(Tail(q), id)
    ELSE <<Head(q)>> \o Without(Tail(q), id)

Unqueue(s, id) == [s EXCEPT !.queue = Without(@, id)]

\* acquire(): the semaphore afterwards
TryAcquire(s, id) == IF CanAcquire(s) THEN Acquire(s) ELSE Enqueue(s, id)

---------------------------------------------------------------------------
(* Values *)

\* Result<ForkInfo>
NoOutput == [kind |-> "none", is_useless |-> FALSE, msg |-> ""]
OkInfo(u) == [kind |-> "info", is_useless |-> u, msg |-> ""]
Failure(m) == [kind |-> "err", is_useless |-> FALSE, msg |-> m]

\* Result<i64> of compare_commits
NoCompare == [kind |-> "none", ahead_by |-> 0]
OkAhead(n) == [kind |-> "ok", ahead_by |-> n]
ErrMissing == [kind |-> "missing", ahead_by |-> 0]
ErrTransport == [kind |-> "transport", ahead_by |-> 0]
CompareOutcomes == {OkAhead(0), OkAhead(1), ErrMissing, ErrTransport}

\* the i-th item of page p of a listing
Item(p, i) == (p - 1) * PAGE_SIZE + i
PageItems(p, n) == [i \in 1 .. n |-> Item(p, i)]

\* waiter ids of the client's semaphore: the fork's own task, and its
\* comparison task of branch b
ForkId(f) == <<f, 0>>
TaskId(f, b) == <<f, b>>

\* calls: the compare calls the task has issued; out: the result it finished with
NewTask == [pc |-> "none", cancelled |-> FALSE, calls |-> 0, out |-> NoCompare]

\* What the remote may answer about a repository: the answers of get_repo
\* (a failure, or the repository with its parent), whether a page request
\* may fail, whether a page may have a next one, the sizes of the last page,
\* and the results of the comparison of each branch.
AnyRepository ==
    [repo |-> {"fail", "none", "ok", "noowner"},
     page_error |-> TRUE,
     more |-> BOOLEAN,
     last |-> LastPageSizes,
     ahead |-> [b \in Slots |-> CompareOutcomes]]

\* pc: the task's position; cancelled: aborted, not yet dropped; parent: the
\* parent of the repo get_repo returned; page, branches: list_branches'
\* locals; requests, pages: the page requests sent and the pages received;
\* listed: list_branches returned Ok; page_error: a page request failed
NewFut == [pc |-> "spawned", cancelled |-> FALSE, parent |-> "unfetched",
           page |-> 0, branches |-> <<>>, requests |-> <<>>, pages |-> <<>>,
           listed |-> FALSE, page_error |-> FALSE, has_commits_ahead |-> FALSE]

VARIABLES
    parallel,        \* Args.parallel: permits of main's semaphore
    client_parallel, \* permits GitHubClient::new gave the client's semaphore
    forks,           \* main's forks: for each fork, whether it has an owner
    remote,          \* for each fork, what the remote may answer about it
    args,            \* Args.auto and Args.dry_run
    poller,          \* poll_for_token: its position and locals
    deletion,        \* main after the collection: selection and deletion
    semaphore,       \* GitHubClient.semaphore
    main_semaphore,  \* main's semaphore
    fut,             \* the task of each fork: its position and locals
    tasks,           \* analyze_fork's JoinSet: the comparison task of each branch
    output,          \* the output of each fork's task
    joined,          \* the forks whose task main's join_next has returned
    fork_infos,      \* main's fork_infos
    main_pc          \* main's position

vars == <<parallel, client_parallel, forks, remote, args, poller, deletion,
          semaphore, main_semaphore, fut, tasks, output, joined, fork_infos,
          main_pc>>

\* what the collection of the batch leaves alone
config == <<parallel, client_parallel, forks, remote, args, poller, deletion>>

\* the forks main spawned a task for
Forks == DOMAIN forks

\* poll_for_token has not been called: a token was given
NoPoller ==
    [state |-> "Unused", pc |-> "none", interval |-> 0, poll_interval |-> 0,
     expires_in |-> 0, elapsed |-> 0, log |-> <<>>, result |-> "none"]

\* main before the selection: nothing selected, shown, confirmed or deleted
NoDeletion ==
    [selected |-> FALSE, selections |-> {}, shown |-> {}, confirmed |-> FALSE,
     cooldown |-> 0, waited |-> 0, pending |-> {}, calls |-> <<>>]

\* the tasks spawned and nothing polled yet (main.rs:125-142)
Spawn ==
    /\ semaphore = NewSemaphore(client_parallel)
    /\ main_semaphore = NewSemaphore(parallel)
    /\ fut = [f \in Forks |-> NewFut]
    /\ tasks = [f \in Forks |-> [b \in Slots |-> NewTask]]
    /\ output = [f \in Forks |-> NoOutput]
    /\ joined = {}
    /\ fork_infos = <<>>
    /\ main_pc = "collecting"

Init ==
    /\ parallel \in 1 .. MaxParallel
    /\ client_parallel \in 1 .. MaxParallel
    /\ forks \in [1 .. NumForks -> [owner : BOOLEAN]]
    /\ remote = [f \in Forks |-> AnyRepository]
    /\ args = [auto |-> FALSE, dry_run |-> FALSE]
    /\ poller = NoPoller
    /\ deletion = NoDeletion
    /\ Spawn

---------------------------------------------------------------------------
(* ForkAnalyzer::analyze_fork, the checks between the listing and the      *)
(* comparisons: the output they return, or NoOutput to go on               *)

\* the owner of the parent looked at before the branch list
PreCheck_ParentFirst(nb, parent, maxb) ==
    IF parent = "noowner"
    THEN Failure("Parent repository missing owner information")
    ELSE IF nb = 0 THEN OkInfo(TRUE)
    ELSE IF nb > maxb THEN OkInfo(FALSE)
    ELSE IF parent = "none" THEN OkInfo(TRUE)
    ELSE NoOutput

\* >= for > in the branch-count check
PreCheck_AtLeast(nb, parent, maxb) ==
    IF nb = 0 THEN OkInfo(TRUE)
    ELSE IF nb >= maxb THEN OkInfo(FALSE)
    ELSE IF parent = "none" THEN OkInfo(TRUE)
    ELSE IF parent = "noowner"
         THEN Failure("Parent repository missing owner information")
    ELSE NoOutput

\* a fork without a parent kept
PreCheck_NoParentKept(nb, parent, maxb) ==
    IF nb = 0 THEN OkInfo(TRUE)
    ELSE IF nb > maxb THEN OkInfo(FALSE)
    ELSE IF parent = "none" THEN OkInfo(FALSE)
    ELSE IF parent = "noowner"
         THEN Failure("Parent repository missing owner information")
    ELSE NoOutput

\* the owner of the parent not looked at
PreCheck_ParentOwnerIgnored(nb, parent, maxb) ==
    IF nb = 0 THEN OkInfo(TRUE)
    ELSE IF nb > maxb THEN OkInfo(FALSE)
    ELSE IF parent = "none" THEN OkInfo(TRUE)
    ELSE NoOutput

PreCheck(nb, parent, maxb) ==
    IF nb = 0 THEN OkInfo(TRUE)
    ELSE IF nb > maxb THEN OkInfo(FALSE)
    ELSE IF parent = "none" THEN OkInfo(TRUE)
    ELSE IF parent = "noowner"
         THEN Failure("Parent repository missing owner information")
    ELSE NoOutput

\* >= for > in the test of ahead_by
JoinBreaks_OnZero(out) ==
    IF out.kind = "ok" THEN out.ahead_by >= 0 ELSE TRUE

\* > 1 for > 0 in the test of ahead_by
JoinBreaks_MoreThanOne(out) ==
    IF out.kind = "ok" THEN out.ahead_by > 1 ELSE TRUE

\* a failed comparison skipped
JoinBreaks_ErrSkipped(out) ==
    IF out.kind = "ok" THEN out.ahead_by > 0 ELSE FALSE

\* the match of the join loop: does this result set has_commits_ahead and break
JoinBreaks(out) ==
    IF out.kind = "ok" THEN out.ahead_by > 0 ELSE TRUE

\* the value returned after the loop
Verdict(ahead) == IF ahead THEN OkInfo(FALSE) ELSE OkInfo(TRUE)

\* page += 1 left out
NextPage_Same(p) == p

\* list_branches: the page asked for after a page that has a next one
NextPage(p) == p + 1

\* list_branches: branches.extend(page_data.items)
Extend(branches, p, n) == branches \o PageItems(p, n)

\* list_branches: the loop goes on after this page
Continues(has_next) == has_next

\* the permit of a page kept over the loop
DropPagePermit_Kept(s) == s

\* list_branches: _permit goes out of scope at the end of each turn of the loop
DropPagePermit(s) == Release(s)

\* the pages fetched so far returned when a page request fails
PageErrorEndsListing_Partial == FALSE

\* list_branches: `?` on a page request returns the error
PageErrorEndsListing == TRUE

\* the tasks left running, as tasks spawned outside a JoinSet would be
AbortAll_Detached(ts) == ts

\* JoinSet::abort_all, and the drop of the JoinSet: a task that holds
\* nothing is gone at once, one that holds a permit or a place in the
\* queue gives it back when the runtime drops it
AbortAll(ts) ==
    [b \in Slots |->
        IF ts[b].pc \in {"spawned", "done"} THEN [ts[b] EXCEPT !.pc = "dropped"]
        ELSE IF ts[b].pc \in {"waiting", "calling"} THEN [ts[b] EXCEPT !.cancelled = TRUE]
        ELSE ts[b]]

\* the tasks analyze_fork spawns, one per branch
SpawnAll(nb) ==
    [b \in Slots |-> IF b <= nb THEN [NewTask EXCEPT !.pc = "spawned"] ELSE NewTask]

---------------------------------------------------------------------------
(* The task of fork f (main.rs:133-141) *)

\* the permit of main's semaphore never given back
Done_KeepsPermit(f, r, res, ms, s, ts) ==
    /\ fut' = [fut EXCEPT ![f] = [r EXCEPT !.pc = "done"]]
    /\ output' = [output EXCEPT ![f] = res]
    /\ main_semaphore' = ms
    /\ semaphore' = s
    /\ tasks' = [tasks EXCEPT ![f] = ts]

\* the task ends: its output is stored and its permit of main's semaphore dropped
Done(f, r, res, ms, s, ts) ==
    /\ fut' = [fut EXCEPT ![f] = [r EXCEPT !.pc = "done"]]
    /\ output' = [output EXCEPT ![f] = res]
    /\ main_semaphore' = Release(ms)
    /\ semaphore' = s
    /\ tasks' = [tasks EXCEPT ![f] = ts]

\* list_branches issues the request of the current page
IssuePage(r) ==
    [r EXCEPT !.pc = "page_call",
              !.requests = Append(@, [page |-> r.page, per_page |-> PAGE_SIZE])]

\* list_branches asks for a permit for the current page: s is the client's
\* semaphore at that point
AskPage(f, r, s) ==
    /\ semaphore' = TryAcquire(s, ForkId(f))
    /\ fut' = [fut EXCEPT ![f] =
                 IF CanAcquire(s) THEN IssuePage(r) ELSE [r EXCEPT !.pc = "page_wait"]]
    /\ UNCHANGED <<main_semaphore, tasks, output>>

\* analyze_fork from its start to get_repo's acquire: ms is main's
\* semaphore once the task holds its permit
EnterAnalyze(f, ms) ==
    IF ~forks[f].owner
    THEN Done(f, fut[f], Failure("Fork repository missing owner information"),
              ms, semaphore, tasks[f])
    ELSE /\ semaphore' = TryAcquire(semaphore, ForkId(f))
         /\ fut' = [fut EXCEPT ![f].pc =
                      IF CanAcquire(semaphore) THEN "repo_call" ELSE "repo_wait"]
         /\ main_semaphore' = ms
         /\ UNCHANGED <<tasks, output>>

\* first poll of the task: sem.acquire()
ForkStart(f) ==
    /\ fut[f].pc = "spawned"
    /\ ~fut[f].cancelled
    /\ IF CanAcquire(main_semaphore)
       THEN EnterAnalyze(f, Acquire(main_semaphore))
       ELSE /\ main_semaphore' = Enqueue(main_semaphore, f)
            /\ fut' = [fut EXCEPT ![f].pc = "admission_wait"]
            /\ UNCHANGED <<semaphore, tasks, output>>
    /\ UNCHANGED <<config, joined, fork_infos, main_pc>>

\* the task is woken with a permit of main's semaphore
ForkAdmitted(f) ==
    /\ fut[f].pc = "admission_wait"
    /\ ~fut[f].cancelled
    /\ Granted(main_semaphore, f)
    /\ EnterAnalyze(f, TakeGrant(main_semaphore))
    /\ UNCHANGED <<config, joined, fork_infos, main_pc>>

\* get_repo is woken with a permit and issues its call
GetRepoGranted(f) ==
    /\ fut[f].pc = "repo_wait"
    /\ ~fut[f].cancelled
    /\ Granted(semaphore, ForkId(f))
    /\ semaphore' = TakeGrant(semaphore)
    /\ fut' = [fut EXCEPT ![f].pc = "repo_call"]
    /\ UNCHANGED <<config, main_semaphore, tasks, output, joined, fork_infos, main_pc>>

\* get_repo's call returns: the permit is dropped, and on success
\* list_branches asks for the permit of page 1
GetRepoReturns(f) ==
    /\ fut[f].pc = "repo_call"
    /\ ~fut[f].cancelled
    /\ \E resp \in remote[f].repo :
         IF resp = "fail"
         THEN Done(f, fut[f], Failure("get_repo failed"), main_semaphore,
                   Release(semaphore), tasks[f])
         ELSE AskPage(f, [fut[f] EXCEPT !.parent = resp, !.page = 1],
                      Release(semaphore))
    /\ UNCHANGED <<config, joined, fork_infos, main_pc>>

\* list_branches is woken with a permit and issues the page request
ListPageGranted(f) ==
    /\ fut[f].pc = "page_wait"
    /\ ~fut[f].cancelled
    /\ Granted(semaphore, ForkId(f))
    /\ semaphore' = TakeGrant(semaphore)
    /\ fut' = [fut EXCEPT ![f] = IssuePage(fut[f])]
    /\ UNCHANGED <<config, main_semaphore, tasks, output, joined, fork_infos, main_pc>>

\* analyze_fork after the listing (analyzer.rs:53-108): r holds the
\* branches, s is the client's semaphore after the last page's permit dropped
AfterListing(f, r, s) ==
    LET pre == PreCheck(Len(r.branches), r.parent, max_branches) IN
    IF pre.kind # "none"
    THEN Done(f, r, pre, main_semaphore, s, tasks[f])
    ELSE /\ tasks' = [tasks EXCEPT ![f] = SpawnAll(Len(r.branches))]
         /\ fut' = [fut EXCEPT ![f] = [r EXCEPT !.pc = "joining"]]
         /\ semaphore' = s
         /\ UNCHANGED <<main_semaphore, output>>

\* a page request returns
ListPageReturns(f) ==
    /\ fut[f].pc = "page_call"
    /\ ~fut[f].cancelled
    /\ \/ /\ remote[f].page_error
          /\ LET r == [fut[f] EXCEPT !.page_error = TRUE]
             IN IF PageErrorEndsListing
                THEN Done(f, r, Failure("list_branches failed"), main_semaphore,
                          DropPagePermit(semaphore), tasks[f])
                ELSE AfterListing(f, [r EXCEPT !.listed = TRUE],
                                  DropPagePermit(semaphore))
       \/ \E has_next \in remote[f].more :
             \E n \in IF has_next THEN PageSizes(TRUE)
                      ELSE PageSizes(FALSE) \cap remote[f].last :
            /\ fut[f].page = MaxPages => ~has_next
            /\ LET r == [fut[f] EXCEPT
                           !.branches = Extend(@, fut[f].page, n),
                           !.pages = Append(@, [n |-> n, next |-> has_next])]
               IN IF Continues(has_next)
                  THEN AskPage(f, [r EXCEPT !.page = NextPage(@)],
                               DropPagePermit(semaphore))
                  ELSE AfterListing(f, [r EXCEPT !.listed = TRUE],
                                    DropPagePermit(semaphore))
    /\ UNCHANGED <<config, joined, fork_infos, main_pc>>

---------------------------------------------------------------------------
(* The comparison task of branch b of fork f (analyzer.rs:96-107) *)

SetTask(f, b, t) ==
    tasks' = [tasks EXCEPT ![f][b] = t]

\* first poll: compare_commits asks for a permit
CompareStart(f, b) ==
    /\ tasks[f][b].pc = "spawned"
    /\ semaphore' = TryAcquire(semaphore, TaskId(f, b))
    /\ IF CanAcquire(semaphore)
       THEN SetTask(f, b, [tasks[f][b] EXCEPT !.pc = "calling", !.calls = @ + 1])
       ELSE SetTask(f, b, [tasks[f][b] EXCEPT !.pc = "waiting"])
    /\ UNCHANGED <<config, main_semaphore, fut, output, joined, fork_infos, main_pc>>

\* compare_commits is woken with a permit and issues its call
CompareGranted(f, b) ==
    /\ tasks[f][b].pc = "waiting"
    /\ ~tasks[f][b].cancelled
    /\ Granted(semaphore, TaskId(f, b))
    /\ semaphore' = TakeGrant(semaphore)
    /\ SetTask(f, b, [tasks[f][b] EXCEPT !.pc = "calling", !.calls = @ + 1])
    /\ UNCHANGED <<config, main_semaphore, fut, output, joined, fork_infos, main_pc>>

\* the compare call returns: the permit is dropped, the task is finished
CompareReturns(f, b) ==
    /\ tasks[f][b].pc = "calling"
    /\ ~tasks[f][b].cancelled
    /\ \E out \in remote[f].ahead[b] :
         SetTask(f, b, [tasks[f][b] EXCEPT !.pc = "done", !.out = out])
    /\ semaphore' = Release(semaphore)
    /\ UNCHANGED <<config, main_semaphore, fut, output, joined, fork_infos, main_pc>>

\* the runtime drops a cancelled task: its permit, or its place in the
\* queue, is given back
CompareDrop(f, b) ==
    /\ tasks[f][b].cancelled
    /\ tasks[f][b].pc \in {"waiting", "calling"}
    /\ semaphore' = IF tasks[f][b].pc = "calling"
                    THEN Release(semaphore)
                    ELSE Unqueue(semaphore, TaskId(f, b))
    /\ SetTask(f, b, [tasks[f][b] EXCEPT !.pc = "dropped"])
    /\ UNCHANGED <<config, main_semaphore, fut, output, joined, fork_infos, main_pc>>

\* the slots of the tasks spawned for fork f
Spawned(f) == {b \in Slots : tasks[f][b].pc # "none"}

\* analyze_fork's join loop (analyzer.rs:112-141): join_next returns the
\* result of a finished task; the loop breaks, or goes on to the next
\* join_next, which returns None once every task has been joined
JoinNext(f) ==
    /\ fut[f].pc = "joining"
    /\ ~fut[f].cancelled
    /\ \E b \in Spawned(f) :
         /\ tasks[f][b].pc = "done"
         /\ LET ts == [tasks[f] EXCEPT ![b].pc = "joined"]
                brk == JoinBreaks(tasks[f][b].out)
                empty == \A c \in Spawned(f) : ts[c].pc = "joined"
            IN IF brk \/ empty
               THEN Done(f, [fut[f] EXCEPT !.has_commits_ahead = brk], Verdict(brk),
                         main_semaphore, semaphore, AbortAll(ts))
               ELSE /\ tasks' = [tasks EXCEPT ![f] = ts]
                    /\ UNCHANGED <<fut, output, main_semaphore, semaphore>>
    /\ UNCHANGED <<config, joined, fork_infos, main_pc>>

---------------------------------------------------------------------------
(* main's collection loop (main.rs:144-147) *)

\* the drop of main's JoinSet
AbortForks(fs) ==
    [g \in Forks |->
        IF fs[g].pc = "spawned" THEN [fs[g] EXCEPT !.pc = "dropped"]
        ELSE IF fs[g].pc \in {"done", "dropped"} THEN fs[g]
        ELSE [fs[g] EXCEPT !.cancelled = TRUE]]

\* what fork_infos.push(result??) does with the output of a task: TRUE to go on
Pushes(res) == res.kind = "info"

MainJoinNext ==
    /\ main_pc = "collecting"
    /\ \E f \in Forks \ joined :
         /\ fut[f].pc = "done"
         /\ joined' = joined \cup {f}
         /\ IF Pushes(output[f])
            THEN /\ fork_infos' = Append(fork_infos,
                                    [fork |-> f, is_useless |-> output[f].is_useless])
                 /\ main_pc' = IF joined' = Forks THEN "collected" ELSE "collecting"
                 /\ UNCHANGED fut
            ELSE /\ main_pc' = "failed"
                 /\ fut' = AbortForks(fut)
                 /\ UNCHANGED fork_infos
    /\ UNCHANGED <<config, semaphore, main_semaphore, tasks, output>>

\* the runtime drops the cancelled task of fork f: the permits it holds and
\* its places in the queues are given back and its JoinSet is dropped
ForkDrop(f) ==
    /\ fut[f].cancelled
    /\ fut[f].pc \notin {"done", "dropped"}
    /\ main_semaphore' = IF fut[f].pc = "admission_wait"
                         THEN Unqueue(main_semaphore, f)
                         ELSE Release(main_semaphore)
    /\ semaphore' = IF fut[f].pc \in {"repo_call", "page_call"} THEN Release(semaphore)
                    ELSE IF fut[f].pc \in {"repo_wait", "page_wait"}
                         THEN Unqueue(semaphore, ForkId(f))
                    ELSE semaphore
    /\ tasks' = [tasks EXCEPT ![f] = AbortAll(tasks[f])]
    /\ fut' = [fut EXCEPT ![f].pc = "dropped"]
    /\ UNCHANGED <<config, output, joined, fork_infos, main_pc>>

---------------------------------------------------------------------------

Next ==
    \/ \E f \in Forks : ForkStart(f)
    \/ \E f \in Forks : ForkAdmitted(f)
    \/ \E f \in Forks : GetRepoGranted(f)
    \/ \E f \in Forks : GetRepoReturns(f)
    \/ \E f \in Forks : ListPageGranted(f)
    \/ \E f \in Forks : ListPageReturns(f)
    \/ \E f \in Forks, b \in Slots : CompareStart(f, b)
    \/ \E f \in Forks, b \in Slots : CompareGranted(f, b)
    \/ \E f \in Forks, b \in Slots : CompareReturns(f, b)
    \/ \E f \in Forks, b \in Slots : CompareDrop(f, b)
    \/ \E f \in Forks : JoinNext(f)
    \/ MainJoinNext
    \/ \E f \in Forks : ForkDrop(f)

Spec == Init /\ [][Next]_vars

\* the runtime polls every task that was woken and every remote call
\* returns: a step is taken whenever one can be
FairSpec == Init /\ [][Next]_vars /\ WF_vars(Next)

---------------------------------------------------------------------------
(* The batch over repositories whose answers are fixed: the remote gives
   one answer to each request, whenever it is asked *)

\* a repository that answers get_repo with `repo`, the one page request
\* with a failure or with n branches, and the comparison of branch b with a[b]
FixedRepository(repo, fails, n, a) ==
    [repo |-> {repo},
     page_error |-> fails,
     more |-> IF fails THEN {} ELSE {FALSE},
     last |-> {n},
     ahead |-> [b \in Slots |-> {a[b]}]]

AllAhead(out) == [b \in Slots |-> out]

FixedRepositories ==
    {FixedRepository("fail", FALSE, 0, AllAhead(OkAhead(0))),
     FixedRepository("ok", TRUE, 0, AllAhead(OkAhead(0))),
     FixedRepository("ok", FALSE, 0, AllAhead(OkAhead(0))),
     FixedRepository("ok", FALSE, max_branches + 1, AllAhead(OkAhead(0))),
     FixedRepository("none", FALSE, 1, AllAhead(OkAhead(0))),
     FixedRepository("noowner", FALSE, 1, AllAhead(OkAhead(0))),
     FixedRepository("ok", FALSE, max_branches, AllAhead(ErrMissing))}
    \cup {FixedRepository("ok", FALSE, max_branches, a) :
             a \in [Slots -> {OkAhead(0), OkAhead(1)}]}

\* a fork without owner information is never looked up
InitFixed ==
    /\ parallel \in 1 .. MaxParallel
    /\ client_parallel \in 1 .. MaxParallel
    /\ forks \in [1 .. NumForks -> [owner : BOOLEAN]]
    /\ remote \in [Forks -> FixedRepositories]
    /\ \A f \in Forks :
          ~forks[f].owner => remote[f] = FixedRepository("fail", FALSE, 0, AllAhead(OkAhead(0)))
    /\ args = [auto |-> FALSE, dry_run |-> FALSE]
    /\ poller = NoPoller
    /\ deletion = NoDeletion
    /\ Spawn

SpecFixed == InitFixed /\ [][Next]_vars

---------------------------------------------------------------------------
(* main after the collection (main.rs:150-217): selection, confirmation,
   cooldown and deletion *)

BATCH_COOLDOWN == 20
SINGLE_COOLDOWN == 5

\* the auto selection taken for the forks that are not useless
AutoSelect_Kept(infos) == {i \in 1 .. Len(infos) : ~infos[i].is_useless}

\* --auto: the indices of the useless forks (main.rs:152-157)
AutoSelect(infos) == {i \in 1 .. Len(infos) : infos[i].is_useless}

\* the dry-run flag ignored
SkipsDelete_Never(a) == FALSE

\* main returns before the confirmation in dry-run mode (main.rs:178-181)
SkipsDelete(a) == a.dry_run

is_batch(sel) == Cardinality(sel) > 1

Cooldown(sel) == IF is_batch(sel) THEN BATCH_COOLDOWN ELSE SINGLE_COOLDOWN

\* the forks at the indices sel of fork_infos
SelectedRepos(sel) == {fork_infos[i].fork : i \in sel}

\* the selection is computed, by --auto or by the user, and shown when it
\* is not empty; an empty selection and dry-run mode end main
MainSelect ==
    /\ main_pc = "collected"
    /\ \E sel \in IF args.auto THEN {AutoSelect(fork_infos)}
                  ELSE SUBSET (1 .. Len(fork_infos)) :
         /\ deletion' = [deletion EXCEPT !.selected = TRUE,
                                         !.selections = sel,
                                         !.shown = SelectedRepos(sel)]
         /\ main_pc' = IF sel = {} THEN "ended"
                       ELSE IF SkipsDelete(args) THEN "ended"
                       ELSE "confirming"
    /\ UNCHANGED <<parallel, client_parallel, forks, remote, args, poller, semaphore,
                   main_semaphore, fut, tasks, output, joined, fork_infos>>

\* the user answers the confirmation; the cooldown is chosen on yes
MainConfirm ==
    /\ main_pc = "confirming"
    /\ \E answer \in BOOLEAN :
         /\ deletion' = [deletion EXCEPT
                           !.confirmed = answer,
                           !.cooldown = IF answer THEN Cooldown(deletion.selections) ELSE @]
         /\ main_pc' = IF answer THEN "cooldown" ELSE "ended"
    /\ UNCHANGED <<parallel, client_parallel, forks, remote, args, poller, semaphore,
                   main_semaphore, fut, tasks, output, joined, fork_infos>>

\* one second of show_cooldown (cli.rs:139-142); the deletion begins after
\* the last one
CooldownTick ==
    /\ main_pc = "cooldown"
    /\ deletion.waited < deletion.cooldown
    /\ deletion' = [deletion EXCEPT
                      !.waited = @ + 1,
                      !.pending = IF deletion.waited + 1 = deletion.cooldown
                                  THEN deletion.selections ELSE @]
    /\ main_pc' = IF deletion.waited + 1 = deletion.cooldown THEN "deleting" ELSE "cooldown"
    /\ UNCHANGED <<parallel, client_parallel, forks, remote, args, poller, semaphore,
                   main_semaphore, fut, tasks, output, joined, fork_infos>>

\* the smallest index of a set of indices
First(sel) == CHOOSE i \in sel : \A j \in sel : i <= j

\* one turn of the deletion loop (main.rs:196-212): the next selected
\* repository is deleted; a failed delete call is shown and the loop goes on
MainDelete ==
    /\ main_pc = "deleting"
    /\ deletion.pending # {}
    /\ LET i == First(deletion.pending)
           rest == deletion.pending \ {i}
       IN IF ~forks[fork_infos[i].fork].owner
          THEN /\ main_pc' = "failed"
               /\ UNCHANGED deletion
          ELSE \E ok \in BOOLEAN :
                 /\ deletion' = [deletion EXCEPT
                                   !.pending = rest,
                                   !.calls = Append(@, [fork |-> fork_infos[i].fork,
                                                        waited |-> deletion.waited,
                                                        confirmed |-> deletion.confirmed,
                                                        ok |-> ok])]
                 /\ main_pc' = IF rest = {} THEN "ended" ELSE "deleting"
    /\ UNCHANGED <<parallel, client_parallel, forks, remote, args, poller, semaphore,
                   main_semaphore, fut, tasks, output, joined, fork_infos>>

\* the three forks of the end-to-end scenario: A has no branch, B has two
\* branches level with a resolvable parent, C has one branch and no parent
RepositoryA == FixedRepository("ok", FALSE, 0, AllAhead(OkAhead(0)))
RepositoryB == FixedRepository("ok", FALSE, 2, AllAhead(OkAhead(0)))
RepositoryC == FixedRepository("none", FALSE, 1, AllAhead(OkAhead(0)))

InitEndToEnd ==
    /\ parallel \in 1 .. MaxParallel
    /\ client_parallel \in 1 .. MaxParallel
    /\ forks = <<[owner |-> TRUE], [owner |-> TRUE], [owner |-> TRUE]>>
    /\ remote = <<RepositoryA, RepositoryB, RepositoryC>>
    /\ args \in [auto : BOOLEAN, dry_run : BOOLEAN]
    /\ poller = NoPoller
    /\ deletion = NoDeletion
    /\ Spawn

\* no analysis fails and no comparison is decided early in this batch, so
\* that no task is ever aborted or dropped
NextEndToEnd ==
    \/ \E f \in Forks : ForkStart(f)
    \/ \E f \in Forks : ForkAdmitted(f)
    \/ \E f \in Forks : GetRepoGranted(f)
    \/ \E f \in Forks : GetRepoReturns(f)
    \/ \E f \in Forks : ListPageGranted(f)
    \/ \E f \in Forks : ListPageReturns(f)
    \/ \E f \in Forks, b \in Slots : CompareStart(f, b)
    \/ \E f \in Forks, b \in Slots : CompareGranted(f, b)
    \/ \E f \in Forks, b \in Slots : CompareReturns(f, b)
    \/ \E f \in Forks : JoinNext(f)
    \/ MainJoinNext
    \/ MainSelect
    \/ MainConfirm
    \/ CooldownTick
    \/ MainDelete

SpecEndToEnd == InitEndToEnd /\ [][NextEndToEnd]_vars

---------------------------------------------------------------------------
(* The device flow (github.rs:37-102): poll_for_token, one action for each
   of its suspension points.  Time is counted in whole seconds. *)

MaxInterval == 5
MaxExpiry == 22
MaxLatency == 1
MaxPolls == 3
BACKOFF == 5

\* the three optional fields of TokenResponse (github.rs:70-75)
Response(token, error, description) ==
    [access_token |-> token, error |-> error, error_description |-> description]

Responses ==
    {Response(TRUE, "none", FALSE),
     Response(TRUE, "slow_down", TRUE),
     Response(FALSE, "authorization_pending", TRUE),
     Response(FALSE, "slow_down", TRUE),
     Response(FALSE, "expired_token", TRUE),
     Response(FALSE, "access_denied", TRUE),
     Response(FALSE, "unsupported_grant_type", TRUE),
     Response(FALSE, "none", TRUE),
     Response(FALSE, "none", FALSE)}

\* > for >= in the test of the elapsed time
Expired_Strict(elapsed, expires_in) == elapsed > expires_in

\* the expiry never tested
Expired_Never(elapsed, expires_in) == FALSE

\* start.elapsed() >= expires_after (github.rs:49, 55)
Expired(elapsed, expires_in) == elapsed >= expires_in

\* where the dispatch on a response leaves the poller (github.rs:79-100),
\* in the order of the code: the token, the error code, the description,
\* and the end of the loop body
Outcome(r) ==
    IF r.access_token THEN "Authorized"
    ELSE IF r.error # "none"
         THEN CASE r.error = "authorization_pending" -> "Polling"
                [] r.error = "slow_down" -> "Polling"
                [] r.error = "expired_token" -> "Expired"
                [] r.error = "access_denied" -> "Denied"
                [] OTHER -> "Failed"
    ELSE IF r.error_description THEN "Failed"
    ELSE "Polling"

\* what poll_for_token returns with
ResultOf(r) ==
    IF r.access_token THEN "token"
    ELSE IF r.error \in {"expired_token", "access_denied"} THEN r.error
    ELSE IF Outcome(r) = "Failed" THEN "failed"
    ELSE "none"

\* the slow_down arm reached
SlowsDown(r) == ~r.access_token /\ r.error = "slow_down"

\* the interval left as it is on slow_down
Backoff_None(poll_interval, r) == poll_interval

\* poll_interval += 5 on slow_down (github.rs:87)
Backoff(poll_interval, r) ==
    IF SlowsDown(r) THEN poll_interval + BACKOFF ELSE poll_interval

\* the poller ends on the timeout
TimedOut(p) ==
    [p EXCEPT !.state = "Expired", !.pc = "none", !.result = "timeout"]

\* the locals of poll_for_token are set (github.rs:43-46)
PollStart ==
    /\ poller.state = "Started"
    /\ poller' = [poller EXCEPT !.state = "Polling", !.pc = "top",
                                !.poll_interval = poller.interval,
                                !.elapsed = 0]
    /\ UNCHANGED <<parallel, client_parallel, forks, remote, args, deletion, semaphore,
                   main_semaphore, fut, tasks, output, joined, fork_infos, main_pc>>

\* the top of the loop: the first test of the expiry, then the sleep
PollSleep ==
    /\ poller.state = "Polling" /\ poller.pc = "top"
    /\ IF Expired(poller.elapsed, poller.expires_in)
       THEN poller' = TimedOut(poller)
       ELSE /\ Len(poller.log) < MaxPolls
            /\ poller' = [poller EXCEPT !.pc = "slept",
                                        !.elapsed = @ + poller.poll_interval]
    /\ UNCHANGED <<parallel, client_parallel, forks, remote, args, deletion, semaphore,
                   main_semaphore, fut, tasks, output, joined, fork_infos, main_pc>>

\* the request of the exchange as the log keeps it
Exchange(p, answered, r) ==
    [at |-> p.elapsed, wait |-> p.poll_interval, answered |-> answered, resp |-> r]

\* after the sleep: the second test of the expiry, then the exchange and
\* the dispatch on its response; the request takes `late` seconds
PollExchange ==
    /\ poller.state = "Polling" /\ poller.pc = "slept"
    /\ IF Expired(poller.elapsed, poller.expires_in)
       THEN poller' = TimedOut(poller)
       ELSE \E late \in 0 .. MaxLatency :
              \/ poller' = [poller EXCEPT
                              !.log = Append(@, Exchange(poller, FALSE,
                                                         Response(FALSE, "none", FALSE))),
                              !.elapsed = @ + late,
                              !.state = "Failed", !.pc = "none",
                              !.result = "transport"]
              \/ \E r \in Responses :
                   poller' = [poller EXCEPT
                                !.log = Append(@, Exchange(poller, TRUE, r)),
                                !.elapsed = @ + late,
                                !.state = Outcome(r),
                                !.pc = IF Outcome(r) = "Polling" THEN "top" ELSE "none",
                                !.poll_interval = Backoff(@, r),
                                !.result = ResultOf(r)]
    /\ UNCHANGED <<parallel, client_parallel, forks, remote, args, deletion, semaphore,
                   main_semaphore, fut, tasks, output, joined, fork_infos, main_pc>>

\* the device flow started with an interval and an expiry of the server;
\* no client yet, and no fork
InitPoll ==
    /\ parallel = 1
    /\ client_parallel = 1
    /\ forks = <<>>
    /\ remote = <<>>
    /\ args = [auto |-> FALSE, dry_run |-> FALSE]
    /\ \E i \in 1 .. MaxInterval, x \in 0 .. MaxExpiry :
         poller = [NoPoller EXCEPT !.state = "Started", !.interval = i, !.expires_in = x]
    /\ deletion = NoDeletion
    /\ Spawn

NextPoll ==
    \/ PollStart
    \/ PollSleep
    \/ PollExchange

SpecPoll == InitPoll /\ [][NextPoll]_vars

\* the device flow with an expiry window short enough for the poller to
\* run to its end within MaxPolls exchanges
InitPollShort ==
    /\ InitPoll
    /\ poller.expires_in <= MaxPolls

\* the sleep ends and the token endpoint answers: the poller takes a step
\* whenever it can
FairSpecPoll == InitPollShort /\ [][NextPoll]_vars /\ WF_vars(NextPoll)

---------------------------------------------------------------------------
(* Properties *)

\* the remote calls in flight through the client: get_repo calls, page
\* requests and compare calls whose future holds a permit
InFlight ==
    Cardinality({f \in Forks : fut[f].pc \in {"repo_call", "page_call"}})
    + Cardinality({t \in Forks \X Slots : tasks[t[1]][t[2]].pc = "calling"})

\* the branches of fork f, once list_branches has returned them
NumBranches(f) == Len(fut[f].branches)

\* fork f went on to the comparisons
Compared(f) == fut[f].listed /\ Spawned(f) # {}

\* the compare calls issued for fork f
RECURSIVE SumCalls(_, _)
SumCalls(ts, n) == IF n = 0 THEN 0 ELSE ts[n].calls + SumCalls(ts, n - 1)
CompareCalls(f) == SumCalls(tasks[f], max_branches)

\* C1: at any moment the remote calls in flight through the client
\* (get_repo, page requests, compare calls, of all forks and all their
\* comparison tasks together) are at most the permits of the client's semaphore
C1_InFlightAtMostPermits == InFlight <= client_parallel

\* every permit is taken, by a page request of one fork and a compare call
\* of another, and a further call waits
C1_Witness ==
    /\ client_parallel = 2
    /\ InFlight = client_parallel
    /\ semaphore.queue # <<>>
    /\ \E f \in Forks, g \in Forks, b \in Slots :
         f # g /\ fut[f].pc = "page_call" /\ tasks[g][b].pc = "calling"

\* C2: when the batch is over, main has collected the result of every fork:
\* the failure of one fork does not stop the collection of the others
C2_EveryForkCollected ==
    main_pc # "collecting" => joined = Forks

\* C3: a fork whose branch list is empty is useless, whatever its parent,
\* and no comparison task exists for it
C3_EmptyIsUseless ==
    \A f \in Forks :
        (fut[f].listed /\ NumBranches(f) = 0) =>
            /\ output[f] = OkInfo(TRUE)
            /\ Spawned(f) = {}
            /\ CompareCalls(f) = 0

\* a fork without branches whose parent has no owner came out useless
C3_Witness ==
    \E f \in Forks :
        /\ fut[f].listed /\ NumBranches(f) = 0
        /\ fut[f].parent = "noowner"
        /\ output[f] = OkInfo(TRUE)

\* C4: a fork with more than max_branches branches is kept and nothing is
\* compared for it; a fork with exactly max_branches branches goes through
\* the parent check and, with a parent, has one comparison task per branch
C4_TooManyBranchesKept ==
    \A f \in Forks :
        /\ (fut[f].listed /\ NumBranches(f) > max_branches) =>
              /\ output[f] = OkInfo(FALSE)
              /\ Spawned(f) = {}
              /\ CompareCalls(f) = 0
        /\ (fut[f].listed /\ NumBranches(f) = max_branches) =>
              /\ fut[f].parent = "none" => output[f] = OkInfo(TRUE)
              /\ fut[f].parent = "noowner" => output[f].kind = "err"
              /\ fut[f].parent = "ok" => Spawned(f) = 1 .. max_branches

\* one fork just above the threshold was kept while another, exactly at the
\* threshold, has had all its branches compared
C4_Witness ==
    \E f \in Forks, g \in Forks :
        /\ fut[f].listed /\ NumBranches(f) = max_branches + 1
        /\ output[f] = OkInfo(FALSE)
        /\ fut[g].listed /\ NumBranches(g) = max_branches
        /\ CompareCalls(g) = max_branches
        /\ output[g].kind = "info"

\* C5 as claimed: a fork without a parent that is classified is useless,
\* whatever the number of its branches
C5_NoParentIsUseless ==
    \A f \in Forks :
        (fut[f].parent = "none" /\ output[f].kind = "info") =>
            output[f].is_useless

\* C5 as amended: a fork without a parent and with at most max_branches
\* branches is useless; with more than max_branches branches it is kept
C5_NoParentFewBranchesIsUseless ==
    \A f \in Forks :
        (fut[f].parent = "none" /\ fut[f].listed) =>
            /\ NumBranches(f) <= max_branches => output[f] = OkInfo(TRUE)
            /\ NumBranches(f) > max_branches => output[f] = OkInfo(FALSE)

\* a fork without a parent and with max_branches branches came out useless,
\* nothing compared
C5_Witness ==
    \E f \in Forks :
        /\ fut[f].parent = "none" /\ fut[f].listed
        /\ NumBranches(f) = max_branches
        /\ output[f] = OkInfo(TRUE)
        /\ Spawned(f) = {}

\* every comparison of fork f has completed with ahead_by = 0
AllZero(f) ==
    \A b \in 1 .. NumBranches(f) : tasks[f][b].out = OkAhead(0)

\* C6: a fork with a parent and 1 .. max_branches branches whose comparisons
\* all complete with ahead_by = 0 is useless, and a compared fork is found
\* useless only once each of its branches has been compared, once, and the
\* result joined
C6_AllZeroIsUseless ==
    \A f \in Forks :
        Compared(f) =>
            /\ (AllZero(f) /\ output[f].kind # "none") => output[f] = OkInfo(TRUE)
            /\ output[f] = OkInfo(TRUE) =>
                  /\ AllZero(f)
                  /\ \A b \in 1 .. NumBranches(f) :
                        tasks[f][b].pc = "joined" /\ tasks[f][b].calls = 1
                  /\ CompareCalls(f) = NumBranches(f)

\* a fork with max_branches branches, all of them compared, came out useless
C6_Witness ==
    \E f \in Forks :
        /\ Compared(f) /\ NumBranches(f) = max_branches /\ max_branches > 1
        /\ AllZero(f)
        /\ output[f] = OkInfo(TRUE)

\* C7: a compared fork one of whose branches is ahead is kept, in whatever
\* order the comparisons complete; it is decided in the step that joins the
\* first such result; and never more compare calls than branches are issued
C7_AheadIsKept ==
    \A f \in Forks :
        /\ CompareCalls(f) <= NumBranches(f)
        /\ \A b \in Slots : tasks[f][b].calls <= 1
        /\ Compared(f) =>
              \A b \in Spawned(f) :
                 tasks[f][b].out.ahead_by > 0 =>
                    /\ output[f].kind # "none" => output[f] = OkInfo(FALSE)
                    /\ tasks[f][b].pc = "joined" =>
                          /\ fut[f].pc = "done"
                          /\ fut[f].has_commits_ahead
                          /\ output[f] = OkInfo(FALSE)

\* a fork was kept on the branch that is ahead, joined after a branch that
\* is not
C7_Witness ==
    \E f \in Forks, b \in Slots, c \in Slots :
        /\ Compared(f)
        /\ tasks[f][b].pc = "joined" /\ tasks[f][b].out = OkAhead(1)
        /\ tasks[f][c].pc = "joined" /\ tasks[f][c].out = OkAhead(0)
        /\ output[f] = OkInfo(FALSE)

\* C8: a compared fork one of whose branches is missing upstream is kept,
\* whatever its other branches report: the missing branch is no error of
\* the classification
C8_MissingIsKept ==
    \A f \in Forks :
        Compared(f) =>
            \A b \in Spawned(f) :
               tasks[f][b].out = ErrMissing =>
                  /\ output[f].kind # "none" => output[f] = OkInfo(FALSE)
                  /\ tasks[f][b].pc = "joined" => output[f] = OkInfo(FALSE)

\* a fork was kept on a branch missing upstream, its other branch not ahead
C8_Witness ==
    \E f \in Forks, b \in Slots, c \in Slots :
        /\ Compared(f)
        /\ tasks[f][b].pc = "joined" /\ tasks[f][b].out = ErrMissing
        /\ tasks[f][c].out = OkAhead(0)
        /\ output[f] = OkInfo(FALSE)

\* C9: a comparison that fails with a transport failure, once joined, makes
\* the classification of its fork fail: the fork's output is an error and
\* no ForkInfo
C9_TransportFailureIsError ==
    \A f \in Forks :
        \A b \in Spawned(f) :
           (tasks[f][b].out = ErrTransport /\ tasks[f][b].pc = "joined") =>
              output[f].kind = "err"

\* the concatenation of the items of pages 1 .. k
RECURSIVE Concat(_, _)
Concat(pages, k) ==
    IF k = 0 THEN <<>> ELSE Concat(pages, k - 1) \o PageItems(k, pages[k].n)

RECURSIVE SumItems(_, _)
SumItems(pages, k) == IF k = 0 THEN 0 ELSE pages[k].n + SumItems(pages, k - 1)

\* C10: the listing asks for pages 1, 2, ... in order, 100 items a page,
\* one request per page received and none after the first page without a
\* next page, and returns the concatenation of the items of those pages;
\* pages of 100, 100 and 37 items give 237 items in 3 requests
C10_PagedListing ==
    \A f \in Forks :
        LET k == Len(fut[f].pages)
            m == Len(fut[f].requests)
        IN /\ \A i \in 1 .. m :
                 fut[f].requests[i] = [page |-> i, per_page |-> PAGE_SIZE]
           /\ \A i \in 1 .. k - 1 : fut[f].pages[i].next
           /\ m \in {k, k + 1}
           /\ fut[f].listed =>
                 /\ k >= 1 /\ ~fut[f].pages[k].next
                 /\ m = k
                 /\ fut[f].branches = Concat(fut[f].pages, k)
                 /\ NumBranches(f) = SumItems(fut[f].pages, k)
           /\ (fut[f].listed /\ k = 3 /\ fut[f].pages[1].n = 100
                 /\ fut[f].pages[2].n = 100 /\ fut[f].pages[3].n = 37) =>
                 NumBranches(f) = 237 /\ m = 3

\* pages of 100, 100 and 37 items have been listed
C10_Witness ==
    \E f \in Forks :
        /\ fut[f].listed
        /\ Len(fut[f].pages) = 3
        /\ fut[f].pages[1] = [n |-> 100, next |-> TRUE]
        /\ fut[f].pages[2] = [n |-> 100, next |-> TRUE]
        /\ fut[f].pages[3] = [n |-> 37, next |-> FALSE]
        /\ NumBranches(f) = 237

\* C11: every page request of a listing holds one permit of its own, given
\* back when the page has arrived: the permits out are exactly the calls in
\* flight, a task listing holds a permit only while a page request is out,
\* and between two pages it holds none and queues like any other task
C11_PermitPerPage ==
    /\ semaphore.permits >= 0
    /\ semaphore.permits + InFlight = client_parallel
    /\ \A f \in Forks :
          /\ fut[f].pc = "page_call" =>
                Len(fut[f].requests) = Len(fut[f].pages) + 1
          /\ fut[f].pc = "page_wait" =>
                /\ Len(fut[f].requests) = Len(fut[f].pages)
                /\ \E i \in 1 .. Len(semaphore.queue) : semaphore.queue[i] = ForkId(f)

\* with one permit, a task that waited has its call out while the task
\* that was listing waits, one page fetched, for the permit of the next page
C11_Witness ==
    /\ client_parallel = 1
    /\ \E f \in Forks, g \in Forks :
         /\ f # g
         /\ fut[f].pc = "page_wait" /\ Len(fut[f].pages) >= 1
         /\ fut[g].pc \in {"repo_call", "page_call"}

\* C12: when a page request fails the listing ends with an error: nothing
\* is returned of the pages fetched before, no page is asked for after the
\* failed one, nothing is compared, and the permit of the failed request is
\* given back, so that the permits out are again the calls in flight
C12_PageErrorEndsListing ==
    \A f \in Forks :
        fut[f].page_error =>
            /\ output[f] = Failure("list_branches failed")
            /\ ~fut[f].listed
            /\ fut[f].pc = "done"
            /\ Len(fut[f].requests) = Len(fut[f].pages) + 1
            /\ Spawned(f) = {}
            /\ semaphore.permits + InFlight = client_parallel

\* the second page request of a listing failed, the full first page is
\* lost, and every permit is back
C12_Witness ==
    \E f \in Forks :
        /\ fut[f].page_error
        /\ Len(fut[f].pages) = 1 /\ NumBranches(f) = PAGE_SIZE
        /\ output[f].kind = "err"
        /\ semaphore.permits = client_parallel

\* fork f holds a permit of main's semaphore
HoldsMainPermit(f) ==
    fut[f].pc \in {"repo_wait", "repo_call", "page_wait", "page_call", "joining"}

\* a remote call of fork f's analysis is in flight (the call of an aborted
\* comparison, not yet dropped, is no longer part of it)
Analysing(f) ==
    \/ fut[f].pc \in {"repo_call", "page_call"}
    \/ \E b \in Slots : tasks[f][b].pc = "calling" /\ ~tasks[f][b].cancelled

\* C17 as claimed: no task holds its permit of main's semaphore while a
\* page request or a comparison of its fork is in flight
C17_PermitOnlyForAdmission ==
    \A f \in Forks :
        ~(HoldsMainPermit(f) /\ ~fut[f].cancelled
            /\ (fut[f].pc = "page_call" \/ \E b \in Slots : tasks[f][b].pc = "calling"))

\* C17 as amended: a task holds its permit of main's semaphore from its
\* admission until analyze_fork has returned, so that at most `parallel`
\* forks are being analysed; a permit of the client's semaphore is held for
\* one remote call only
C17_PermitForWholeAnalysis ==
    /\ main_semaphore.permits >= 0
    /\ main_semaphore.permits + Cardinality({f \in Forks : HoldsMainPermit(f)})
          = parallel
    /\ Cardinality({f \in Forks : Analysing(f) /\ ~fut[f].cancelled}) <= parallel
    /\ \A f \in Forks :
          (Analysing(f) /\ ~fut[f].cancelled) => HoldsMainPermit(f)
    /\ semaphore.permits + InFlight = client_parallel

\* with one permit, a fork's comparison is in flight while the task of
\* another fork waits for admission
C17_Witness ==
    /\ parallel = 1
    /\ \E f \in Forks, g \in Forks, b \in Slots :
         /\ fut[f].pc = "joining" /\ tasks[f][b].pc = "calling"
         /\ fut[g].pc = "admission_wait"

\* C19: once a fork is decided its output never changes; a cancelled task
\* issues no call and delivers no result; when analyze_fork returns on a
\* positive signal every task not joined is cancelled or gone; and a
\* finished comparison can always be joined, whatever the other tasks do
C19_Step ==
    \A f \in Forks :
        /\ output[f].kind # "none" => output'[f] = output[f]
        /\ \A b \in Slots :
              tasks[f][b].cancelled =>
                 /\ tasks'[f][b].calls = tasks[f][b].calls
                 /\ tasks'[f][b].out = tasks[f][b].out
                 /\ tasks'[f][b].pc \in {tasks[f][b].pc, "dropped"}
        /\ (fut'[f].pc = "done" /\ fut'[f].has_commits_ahead) =>
              \A b \in Slots :
                 \/ tasks'[f][b].pc \in {"none", "joined", "dropped"}
                 \/ tasks'[f][b].cancelled
        /\ (fut[f].pc = "joining" /\ ~fut[f].cancelled
              /\ \E b \in Slots : tasks[f][b].pc = "done") => ENABLED JoinNext(f)

C19_CancelledTasksAreInert == [][C19_Step]_vars

\* a fork was kept on one branch while the comparison of its other branch,
\* cancelled, still waits for a permit, no call issued
C19_Witness ==
    \E f \in Forks, b \in Slots :
        /\ fut[f].pc = "done" /\ fut[f].has_commits_ahead
        /\ output[f] = OkInfo(FALSE)
        /\ tasks[f][b].cancelled /\ tasks[f][b].pc = "waiting"
        /\ tasks[f][b].calls = 0

\* the one answer of a fixed repository
TheAnswer(answers) == CHOOSE x \in answers : TRUE

\* what analyze_fork returns for fork f from the answers of its repository,
\* taken in the order of the code with the comparisons in branch order
Classified(f) ==
    LET rep == remote[f]
        n == TheAnswer(rep.last)
    IN IF ~forks[f].owner
       THEN Failure("Fork repository missing owner information")
       ELSE IF TheAnswer(rep.repo) = "fail" THEN Failure("get_repo failed")
       ELSE IF rep.page_error THEN Failure("list_branches failed")
       ELSE IF PreCheck(n, TheAnswer(rep.repo), max_branches).kind # "none"
            THEN PreCheck(n, TheAnswer(rep.repo), max_branches)
       ELSE IF TheAnswer(rep.repo) = "noowner"
            THEN Failure("Parent repository missing owner information")
       ELSE Verdict(\E b \in 1 .. n : JoinBreaks(TheAnswer(rep.ahead[b])))

\* the forks whose ForkInfo main holds
Collected == {f \in Forks : \E i \in 1 .. Len(fork_infos) : fork_infos[i].fork = f}

\* the first half of C20: the result of a fork is the one its answers
\* determine, under every order of its comparisons and every interleaving
C20_ForkResultFixed ==
    \A f \in Forks : output[f].kind # "none" => output[f] = Classified(f)

\* C20: the ForkInfo values main has collected when it ends are those of
\* the forks whose answers classify them, under every completion order
C20_CollectedSetFixed ==
    main_pc \in {"collected", "failed"} =>
        Collected = {f \in Forks : Classified(f).kind = "info"}

\* the same two forks, one without owner information and one with no
\* branch, end with the ForkInfo of the second collected ...
C20_CollectedThenFailed ==
    /\ parallel = MaxParallel /\ client_parallel = MaxParallel
    /\ ~forks[1].owner /\ forks[2].owner
    /\ remote[2] = FixedRepository("ok", FALSE, 0, AllAhead(OkAhead(0)))
    /\ main_pc = "failed" /\ Collected = {2}

\* ... or with nothing collected, by the order in which they were joined
C20_FailedFirst ==
    /\ parallel = MaxParallel /\ client_parallel = MaxParallel
    /\ ~forks[1].owner /\ forks[2].owner
    /\ remote[2] = FixedRepository("ok", FALSE, 0, AllAhead(OkAhead(0)))
    /\ main_pc = "failed" /\ Collected = {}

\* the forks selected for deletion
Selected == SelectedRepos(deletion.selections)

\* C16 as claimed: of the forks A, B, C the second is kept, and --auto
\* selects A and C
C16_AutoSelectsAC ==
    /\ \A f \in Forks : output[f].kind # "none" => output[f] = OkInfo(f # 2)
    /\ (deletion.selected /\ args.auto) => Selected = {1, 3}

\* C16 as amended: A, B and C are all classified useless (B by its two
\* comparisons, both level), and --auto selects the three of them, in
\* every order in which the analyses complete
C16_AutoSelectsABC ==
    /\ \A f \in Forks : output[f].kind # "none" => output[f] = OkInfo(TRUE)
    /\ deletion.selected => Len(fork_infos) = 3
    /\ (deletion.selected /\ args.auto) => Selected = {1, 2, 3}

\* the three analyses completed in the order C, B, A and --auto selected all
C16_Witness ==
    /\ args.auto /\ deletion.selected
    /\ Len(fork_infos) = 3
    /\ fork_infos[1].fork = 3 /\ fork_infos[2].fork = 2 /\ fork_infos[3].fork = 1
    /\ CompareCalls(2) = 2
    /\ Selected = {1, 2, 3}

\* C18: in dry-run mode the selection is computed and shown and no delete
\* call is issued; otherwise every delete call is for a selected
\* repository, follows a positive confirmation and the whole cooldown, and
\* no repository is deleted twice
C18_DeleteOnlySelectedConfirmed ==
    /\ args.dry_run => deletion.calls = <<>>
    /\ (args.dry_run /\ main_pc = "ended") =>
          /\ deletion.selected
          /\ deletion.shown = Selected
    /\ \A i \in 1 .. Len(deletion.calls) :
          /\ deletion.calls[i].fork \in Selected
          /\ deletion.calls[i].confirmed
          /\ deletion.calls[i].waited = Cooldown(deletion.selections)
          /\ \A j \in 1 .. Len(deletion.calls) :
                deletion.calls[j].fork = deletion.calls[i].fork => j = i
    /\ deletion.pending \subseteq deletion.selections

\* two of the three forks were selected by the user and deleted after the
\* cooldown of a batch, the first delete call having failed
C18_Witness ==
    /\ ~args.dry_run /\ ~args.auto
    /\ main_pc = "ended"
    /\ Cardinality(deletion.selections) = 2
    /\ Len(deletion.calls) = 2
    /\ ~deletion.calls[1].ok /\ deletion.calls[2].ok
    /\ deletion.waited = BATCH_COOLDOWN

\* a dry run ended with a selection shown and nothing deleted
C18_DryRunWitness ==
    /\ args.dry_run /\ main_pc = "ended"
    /\ deletion.shown # {} /\ deletion.calls = <<>>

\* one repository alone was deleted after the short cooldown
C18_SingleWitness ==
    /\ main_pc = "ended" /\ Len(deletion.calls) = 1
    /\ deletion.waited = SINGLE_COOLDOWN

\* the slow_down responses among the first i exchanges
SlowDowns(i) == Cardinality({j \in 1 .. i : SlowsDown(poller.log[j].resp)})

\* C13: the wait before each exchange is the initial interval plus 5
\* seconds for each slow_down received before it, so it never decreases and
\* authorization_pending leaves it as it is; with interval 5 and the
\* responses authorization_pending, slow_down, token there are three
\* exchanges, the third after a wait of 10 seconds, and the token is returned
C13_IntervalBackoff ==
    /\ \A i \in 1 .. Len(poller.log) :
          /\ poller.log[i].wait = poller.interval + 5 * SlowDowns(i - 1)
          /\ \A j \in 1 .. i : poller.log[j].wait <= poller.log[i].wait
    /\ poller.state = "Polling" =>
          poller.poll_interval = poller.interval + 5 * SlowDowns(Len(poller.log))
    /\ (/\ poller.interval = 5
        /\ Len(poller.log) >= 3
        /\ poller.log[1].resp = Response(FALSE, "authorization_pending", TRUE)
        /\ poller.log[2].resp = Response(FALSE, "slow_down", TRUE)
        /\ poller.log[3].resp = Response(TRUE, "none", FALSE))
       => /\ Len(poller.log) = 3
          /\ poller.log[1].wait = 5 /\ poller.log[2].wait = 5 /\ poller.log[3].wait = 10
          /\ poller.state = "Authorized" /\ poller.result = "token"

\* interval 5: authorization_pending, slow_down, then the token on the
\* third exchange after a wait of 10 seconds
C13_Witness ==
    /\ poller.interval = 5
    /\ Len(poller.log) = 3
    /\ poller.log[1].resp = Response(FALSE, "authorization_pending", TRUE)
    /\ poller.log[2].resp = Response(FALSE, "slow_down", TRUE)
    /\ poller.log[3].resp = Response(TRUE, "none", FALSE)
    /\ poller.log[3].wait = 10
    /\ poller.state = "Authorized"

\* a step of the poller taken when the expiry window has passed ends it on
\* the timeout and issues no exchange
C14_Step ==
    (poller.state = "Polling" /\ poller.elapsed >= poller.expires_in) =>
        /\ poller'.state = "Expired" /\ poller'.result = "timeout"
        /\ poller'.log = poller.log

\* C14: the expiry is tested before and after the sleep: at either test an
\* elapsed time >= expires_in ends the poller in Expired with a timeout
\* and without another exchange; no exchange is ever issued at an elapsed
\* time >= expires_in, and none at all when expires_in is 0
C14_NoExchangeAfterExpiry ==
    /\ [](/\ \A i \in 1 .. Len(poller.log) : poller.log[i].at < poller.expires_in
          /\ poller.expires_in = 0 => poller.log = <<>>
          /\ poller.result = "timeout" =>
                poller.state = "Expired" /\ poller.elapsed >= poller.expires_in)
    /\ [][C14_Step]_vars

\* the window passed during a sleep that followed an exchange: the test
\* after the sleep ended the poller at the very second of the expiry
C14_Witness ==
    /\ poller.state = "Expired" /\ poller.result = "timeout"
    /\ Len(poller.log) >= 1
    /\ poller.elapsed = poller.expires_in
    /\ poller.elapsed = poller.log[Len(poller.log)].at + poller.poll_interval

TerminalStates == {"Authorized", "Denied", "Expired", "Failed"}

\* the state the claim gives to a response
ClaimedOutcome(r) ==
    IF r.access_token THEN "Authorized"
    ELSE IF r.error \in {"authorization_pending", "slow_down"} THEN "Polling"
    ELSE IF r.error = "expired_token" THEN "Expired"
    ELSE IF r.error = "access_denied" THEN "Denied"
    ELSE "Failed"

\* a terminal state is never left and nothing is exchanged in it
C15_Step ==
    poller.state \in TerminalStates => poller' = poller

\* C15: from Polling a token leads to Authorized, expired_token to Expired,
\* access_denied to Denied, every other response but authorization_pending
\* and slow_down to Failed; only these two keep the poller polling; the
\* four terminal states are absorbing
C15_PollerStateMachine ==
    /\ [](/\ poller.state \in {"Started", "Polling"} \cup TerminalStates
          /\ \A i \in 1 .. Len(poller.log) :
                LET claimed == IF poller.log[i].answered
                               THEN ClaimedOutcome(poller.log[i].resp)
                               ELSE "Failed"
                IN IF claimed = "Polling"
                   THEN i = Len(poller.log) =>
                           \/ poller.state = "Polling"
                           \/ poller.state = "Expired" /\ poller.result = "timeout"
                   ELSE i = Len(poller.log) /\ poller.state = claimed)
    /\ [][C15_Step]_vars

\* fork f never got past the owner test of analyze_fork: no remote call
OwnerTestOnly(f) ==
    /\ fut[f].pc \in {"spawned", "admission_wait", "done", "dropped"}
    /\ fut[f].parent = "unfetched"
    /\ fut[f].requests = <<>>
    /\ CompareCalls(f) = 0

\* C21 as claimed: a fork without owner fails before any remote call, and
\* a fork whose parent has no owner ends in an error whatever the number
\* of its branches, with no comparison call
C21_MissingOwnerIsError ==
    \A f \in Forks :
        /\ ~forks[f].owner =>
              /\ OwnerTestOnly(f)
              /\ output[f].kind # "none" =>
                    output[f] = Failure("Fork repository missing owner information")
        /\ (fut[f].parent = "noowner" /\ fut[f].listed) =>
              /\ output[f].kind # "none" => output[f].kind = "err"
              /\ CompareCalls(f) = 0

\* C21 as amended: a fork without owner fails before any remote call; a
\* fork whose parent has no owner ends in an error when it has between 1
\* and max_branches branches, is useless when it has none and kept when it
\* has more, these two tests coming first; no comparison is spawned or called
C21_MissingParentOwnerAfterCounts ==
    \A f \in Forks :
        /\ ~forks[f].owner =>
              /\ OwnerTestOnly(f)
              /\ output[f].kind # "none" =>
                    output[f] = Failure("Fork repository missing owner information")
        /\ (fut[f].parent = "noowner" /\ fut[f].listed) =>
              /\ fut[f].pc \in {"done", "dropped"}
              /\ output[f].kind # "none" =>
                    output[f] = IF NumBranches(f) = 0 THEN OkInfo(TRUE)
                                ELSE IF NumBranches(f) > max_branches THEN OkInfo(FALSE)
                                ELSE Failure("Parent repository missing owner information")
              /\ Spawned(f) = {}
              /\ CompareCalls(f) = 0

\* one fork failed on its own owner, never looked up, and another, with
\* as many branches as allowed, on the owner of its parent
C21_Witness ==
    \E f \in Forks, g \in Forks :
        /\ ~forks[f].owner /\ fut[f].pc = "done" /\ output[f].kind = "err"
        /\ fut[g].parent = "noowner" /\ NumBranches(g) = max_branches
        /\ output[g] = Failure("Parent repository missing owner information")

\* every permit of both semaphores is back and nobody waits for one
AllPermitsBack ==
    /\ semaphore = NewSemaphore(client_parallel)
    /\ main_semaphore = NewSemaphore(parallel)

\* main is past the collection
BatchEnded == main_pc # "collecting"

\* the collection always ends
C22_MainEnds == <>BatchEnded

\* every permit is back in the end, those of the aborted tasks included
C22_PermitsReturned == <>[]AllPermitsBack

\* every permit is back at the moment main leaves the collection
C22_PermitsBackAtEnd == BatchEnded => AllPermitsBack

\* C22: the batch never deadlocks: every fork is admitted in the end and
\* its classification produces a result, the collection ends, and every
\* permit of both semaphores is back once it has ended
C22_BatchTerminates ==
    /\ \A f \in 1 .. NumForks :
          <>(fut[f].pc \notin {"spawned", "admission_wait"} /\ output[f].kind # "none")
    /\ <>BatchEnded
    /\ <>[]AllPermitsBack

\* the seconds slept before the first k exchanges
RECURSIVE SumWaits(_)
SumWaits(k) == IF k = 0 THEN 0 ELSE poller.log[k].wait + SumWaits(k - 1)

\* C23: the poller always ends in Authorized, Denied, Expired or Failed,
\* whatever the server answers: an exchange is issued only when the waits
\* so far sum to less than expires_in, so that k exchanges satisfy
\* k * interval < expires_in
C23_PollerTerminates ==
    /\ [](\A k \in 1 .. Len(poller.log) :
             /\ SumWaits(k) <= poller.log[k].at
             /\ SumWaits(k) < poller.expires_in
             /\ k * poller.interval < poller.expires_in)
    /\ <>(poller.state \in TerminalStates)

\* the server never gave a token nor a fatal error (an empty response, then
\* slow_down) and the poller ended on the timeout after two exchanges
C23_Witness ==
    /\ poller.state = "Expired" /\ poller.result = "timeout"
    /\ Len(poller.log) = 2
    /\ poller.log[1].resp = Response(FALSE, "none", FALSE)
    /\ poller.log[2].resp = Response(FALSE, "slow_down", TRUE)
    /\ 2 * poller.interval < poller.expires_in

====
